---- MODULE Spec2Model ----
(***************************************************************************)
(* Checkout / stock accounting / order state machine of the arc-backend    *)
(* REST service (orderController, paymentController, Order / Product /     *)
(* Cart mongoose models).                                                   *)
(*                                                                         *)
(* The store is MongoDB: every awaited model call is one atomic store      *)
(* operation, and a request handler is a sequence of such operations that  *)
(* interleaves freely with the other requests in flight.                   *)
(***************************************************************************)
EXTENDS Integers, Sequences, FiniteSets, TLC

VARIABLES stock, stock0, isActive, cart, orders, co, cn, resp, faults, price, cartV, ca,
          notifyErrors, shipping, notice, totalStock, su

vars == <<stock, stock0, isActive, cart, orders, co, cn, resp, faults, price, cartV, ca,
          notifyErrors, shipping, notice, totalStock, su>>

(***************************************************************************)
(* Bounds of the model                                                     *)
(***************************************************************************)
\* largest quantity of a cart line
MaxQty == 2
\* largest initial stock of a SKU
MaxStock == 2
\* number of Checkout calls
NumCheckouts == 2
\* number of CancelOrder calls
NumCancels == 2
\* number of store failures injected
MaxFaults == 1
\* number of cart requests
NumCartCalls == 2
\* number of notifications that fail
MaxNotifyErrors == 1

(***************************************************************************)
(* The catalog: two products with one SKU each                             *)
(***************************************************************************)
Users == {"u1", "u2"}
SKUs == {"A", "B"}
Products == {"p1", "p2"}
ProductOf(s) == IF s = "A" THEN "p1" ELSE "p2"
Price(s) == IF s = "A" THEN 299000 ELSE 150000
Weight(s) == IF s = "A" THEN 500 ELSE 300

CheckoutIds == 1..NumCheckouts
CancelIds == 1..NumCancels
CartCallIds == 1..NumCartCalls

\* prices an admin may give a SKU
Prices == {150000, 299000}

\* Order.ts: enum of status and of paymentStatus
OrderStatusEnum == {"pending", "confirmed", "processing", "shipped", "delivered", "cancelled", "returned"}
PaymentStatusEnum == {"pending", "paid", "failed", "refunded"}

ShippingMethods == {"regular", "JNE:REG"}
\* cost of the courier option found by ShippingService.getShippingOption; 0: none found
OptionCosts == {0, 18000}
TrackingNumbers == {"", "JNE123"}
CancelReasons == {"changed my mind"}

(***************************************************************************)
(* Pure helpers                                                            *)
(***************************************************************************)
RECURSIVE SumSeq(_)
SumSeq(s) == IF s = <<>> THEN 0 ELSE Head(s) + SumSeq(Tail(s))

Max(a, b) == IF a >= b THEN a ELSE b

\* items.reduce((total, item) => total + item.weight * item.quantity, 0)
TotalWeight(items) == SumSeq([i \in 1..Len(items) |-> items[i].weight * items[i].quantity])

\* calculateShippingCost in hundredths of the currency unit: Math.max(15000, w * 0.01) is
\* Max(1500000, w) / 100, which need not be a whole number
calculateShippingCost100(shippingMethod, items) ==
    LET totalWeight == TotalWeight(items) IN
    CASE shippingMethod = "regular"  -> Max(1500000, totalWeight)
      [] shippingMethod = "express"  -> Max(2500000, totalWeight * 2)
      [] shippingMethod = "same_day" -> Max(5000000, totalWeight * 3)
      [] OTHER -> 1500000

\* the cost of an order of this catalog: its total weight is a multiple of 100 g, so the
\* division is exact
calculateShippingCost(shippingMethod, items) ==
    calculateShippingCost100(shippingMethod, items) \div 100

\* shippingMethod.includes(':') ? (option?.cost || fallback) : fallback
ShippingCostOf(shippingMethod, items, optionCost) ==
    IF shippingMethod = "JNE:REG"
    THEN (IF optionCost # 0 THEN optionCost ELSE calculateShippingCost(shippingMethod, items))
    ELSE calculateShippingCost(shippingMethod, items)

Subtotal(items) == SumSeq([i \in 1..Len(items) |-> items[i].price * items[i].quantity])

\* quantity of SKU s in a list of cart lines or order items
QtyOf(items, s) ==
    SumSeq([i \in 1..Len(items) |-> IF items[i].sku = s THEN items[i].quantity ELSE 0])

\* the SKUs in the order of a product's skus array
SKUSeq == <<"A", "B">>

\* this.skus.reduce((total, sku) => total + sku.stock, 0) for product p with SKU stocks stk
TotalOf(stk, p) ==
    SumSeq([i \in 1..Len(SKUSeq) |-> IF ProductOf(SKUSeq[i]) = p THEN stk[SKUSeq[i]] ELSE 0])

\* NewOrder with a total that leaves the shipping cost out
NewOrderNoShipping(userId, orderItems, subtotal, shippingMethod, optionCost) ==
    LET shippingCost == ShippingCostOf(shippingMethod, orderItems, optionCost)
    IN [user |-> userId,
        items |-> orderItems,
        subtotal |-> subtotal,
        shippingCost |-> shippingCost,
        taxAmount |-> 0,
        discountAmount |-> 0,
        totalAmount |-> subtotal,
        status |-> "pending",
        paymentStatus |-> "pending",
        trackingNumber |-> "",
        cancelReason |-> ""]

\* the order document built by checkout
NewOrder(userId, orderItems, subtotal, shippingMethod, optionCost) ==
    LET shippingCost == ShippingCostOf(shippingMethod, orderItems, optionCost)
        taxAmount == 0
        discountAmount == 0
    IN [user |-> userId,
        items |-> orderItems,
        subtotal |-> subtotal,
        shippingCost |-> shippingCost,
        taxAmount |-> taxAmount,
        discountAmount |-> discountAmount,
        totalAmount |-> subtotal + shippingCost + taxAmount - discountAmount,
        status |-> "pending",
        paymentStatus |-> "pending",
        trackingNumber |-> "",
        cancelReason |-> ""]

\* mongoose validation of an Order document on save
ValidOrder(o) ==
    /\ o.status \in OrderStatusEnum
    /\ o.paymentStatus \in PaymentStatusEnum
    /\ o.subtotal >= 0 /\ o.shippingCost >= 0 /\ o.taxAmount >= 0
    /\ o.discountAmount >= 0 /\ o.totalAmount >= 0
    /\ \A i \in 1..Len(o.items) : o.items[i].quantity >= 1

(***************************************************************************)
(* Initial state                                                           *)
(***************************************************************************)
\* a cart line as addToCart pushes it: the price is the SKU's price when it was added
Line(s, q) == [product |-> ProductOf(s), sku |-> s, quantity |-> q, price |-> Price(s)]

\* carts built by addToCart: one line per (product, sku), quantity >= 1
Carts1 == {<<Line("A", q)>> : q \in 1..MaxQty}
          \cup {<<Line("A", q), Line("B", r)>> : <<q, r>> \in (1..MaxQty) \X (1..MaxQty)}
Carts2 == {<<>>, <<Line("A", 1)>>}

\* a Checkout call: its position, its locals, what it did to the store (order, dec)
IdleCheckout ==
    [pc |-> "idle", user |-> "u1", items |-> <<>>, i |-> 0,
     orderItems |-> <<>>, subtotal |-> 0, order |-> 0,
     dec |-> [s \in SKUs |-> 0], result |-> 0, message |-> ""]

\* the call has answered with a status code and a message: its locals are gone
AnswerMessage(c, code, message) ==
    [c EXCEPT !.pc = "done", !.items = <<>>, !.i = 0, !.orderItems = <<>>,
              !.subtotal = 0, !.result = code, !.message = message]

\* the 201 answer, and the 500 answer of the catch block
Answer(c, code) ==
    AnswerMessage(c, code, IF code = 201 THEN "Order created successfully"
                           ELSE "Failed to create order")

\* a CancelOrder call: its position, the order document it loaded, what it restored (inc)
IdleCancel ==
    [pc |-> "idle", user |-> "u1", order |-> 0, reason |-> "", items |-> <<>>, i |-> 0,
     previousStatus |-> "", inc |-> [s \in SKUs |-> 0], result |-> 0]

\* the call has answered: its locals are gone
AnswerCancel(c, code) ==
    [c EXCEPT !.pc = "done", !.user = "u1", !.reason = "", !.items = <<>>, !.i = 0,
              !.previousStatus = "", !.result = code]

\* a call of calculateShippingCost: its arguments and its result in hundredths (-1: none)
NoShippingCall == [shippingMethod |-> "regular", items |-> <<>>, cost100 |-> -1]

\* a cart request: its position, its inputs, the SKU's stock and price it read, the index
\* of the line it changes (0: a pushed line), the array it sets, the __v it loaded
IdleCartCall ==
    [pc |-> "idle", op |-> "", user |-> "u1", sku |-> "A", quantity |-> 0, itemId |-> 0,
     stock |-> 0, price |-> 0, items |-> <<>>, v |-> 0, result |-> 0]

\* the log of the NotificationService: the calls made by the latest step of a request,
\* kept only where the log is on
NoLog == [on |-> FALSE, calls |-> {}]

\* the step made these calls of the NotificationService
Log(calls) == notice' = [notice EXCEPT !.calls = IF notice.on THEN calls ELSE {}]

\* a SKU update request: its position, the SKU, the stock it is to set (-1: none), the
\* SKU stocks of the product document it loaded
IdleSKUUpdate == [pc |-> "idle", sku |-> "A", stock |-> -1, skus |-> [s \in SKUs |-> 0]]

\* no order yet, no call in flight, every product active and saved
InitCalls ==
    /\ stock0 = stock
    /\ totalStock = [p \in Products |-> TotalOf(stock, p)]
    /\ su = IdleSKUUpdate
    /\ isActive = [p \in Products |-> TRUE]
    /\ orders = <<>>
    /\ co = [p \in CheckoutIds |-> IdleCheckout]
    /\ cn = [c \in CancelIds |-> IdleCancel]
    /\ resp = 0
    /\ price = [s \in SKUs |-> Price(s)]
    /\ cartV = [u \in Users |-> 0]
    /\ ca = [k \in CartCallIds |-> IdleCartCall]
    /\ notifyErrors = 0
    /\ notice = NoLog
    /\ shipping = NoShippingCall

\* any stock, any carts
InitStore ==
    /\ stock \in [SKUs -> 0..MaxStock]
    /\ cart \in {c \in [Users -> Carts1 \cup Carts2] : c["u1"] \in Carts1 /\ c["u2"] \in Carts2}
    /\ InitCalls

(***************************************************************************)
(* checkout: POST /orders/checkout                                         *)
(***************************************************************************)
\* a call of the NotificationService: sendOrderConfirmation ("confirmation"),
\* handleOrderStatusChange ("order") or handlePaymentStatusChange ("payment") for an order
\* and its new status
Call(orderId, kind, status) == [order |-> orderId, kind |-> kind, status |-> status]

\* the handler's call of the NotificationService inside its try block: sent, or failed
\* and logged by the catch block
Notify(sent) ==
    /\ sent \/ notifyErrors < MaxNotifyErrors
    /\ notifyErrors' = IF sent THEN notifyErrors ELSE notifyErrors + 1

\* a store call that throws: the handler's catch block answers 500
CanFail == faults < MaxFaults

Started(p) == co[p].pc # "idle"

\* checkoutLoad that goes on to build the order without the validation loop
checkoutLoadSkipsValidation(p, userId) ==
    /\ co[p].pc = "idle"
    /\ \A q \in CheckoutIds : q < p => Started(q)
    /\ co' = [co EXCEPT ![p] = [@ EXCEPT !.pc = "save", !.user = userId,
                                         !.items = cart[userId], !.i = 1]]
    /\ Log({})
    /\ UNCHANGED <<totalStock, su, shipping, notifyErrors, price, cartV, ca, stock, stock0, isActive, cart, orders, cn, resp, faults>>

\* checkoutLoad without the empty-cart return
checkoutLoadNoEmptyCheck(p, userId) ==
    /\ co[p].pc = "idle"
    /\ \A q \in CheckoutIds : q < p => Started(q)
    /\ co' = [co EXCEPT ![p] = [@ EXCEPT !.pc = IF cart[userId] = <<>> THEN "save" ELSE "validate",
                                         !.user = userId, !.items = cart[userId], !.i = 1]]
    /\ Log({})
    /\ UNCHANGED <<totalStock, su, shipping, notifyErrors, price, cartV, ca, stock, stock0, isActive, cart, orders, cn, resp, faults>>

\* Cart.findOne({user}) and the empty-cart return
checkoutLoad(p, userId) ==
    /\ co[p].pc = "idle"
    /\ \A q \in CheckoutIds : q < p => Started(q)
    /\ \/ /\ cart[userId] = <<>>
          /\ co' = [co EXCEPT ![p] = AnswerMessage([@ EXCEPT !.user = userId], 400,
                                                   "Cart is empty")]
       \/ /\ cart[userId] # <<>>
          /\ co' = [co EXCEPT ![p] = [@ EXCEPT !.pc = "validate", !.user = userId,
                                     !.items = cart[userId], !.i = 1]]
    /\ Log({})
    /\ UNCHANGED <<totalStock, su, shipping, notifyErrors, price, cartV, ca, stock, stock0, isActive, cart, orders, cn, resp, faults>>

\* checkoutValidate that prices the item with the price stored in the cart line
checkoutValidateCartPrice(p) ==
    /\ co[p].pc = "validate"
    /\ LET cartItem == co[p].items[co[p].i]
           last == co[p].i = Len(co[p].items)
       IN IF ~isActive[cartItem.product]
          THEN co' = [co EXCEPT ![p] = AnswerMessage(@, 400, "Product is no longer available")]
          ELSE IF cartItem.sku \notin SKUs \/ ProductOf(cartItem.sku) # cartItem.product
                  \/ stock[cartItem.sku] < cartItem.quantity
          THEN co' = [co EXCEPT ![p] = AnswerMessage(@, 400, "Insufficient stock")]
          ELSE co' = [co EXCEPT ![p] = [@ EXCEPT
                        !.orderItems = Append(@, [product |-> cartItem.product,
                                                  sku |-> cartItem.sku,
                                                  quantity |-> cartItem.quantity,
                                                  price |-> cartItem.price,
                                                  weight |-> Weight(cartItem.sku)]),
                        !.subtotal = @ + cartItem.price * cartItem.quantity,
                        !.i = IF last THEN 1 ELSE @ + 1,
                        !.pc = IF last THEN "save" ELSE "validate"]]
    /\ Log({})
    /\ UNCHANGED <<totalStock, su, shipping, notifyErrors, price, cartV, ca, stock, stock0, isActive, cart, orders, cn, resp, faults>>

\* checkoutValidate without the comparison of the SKU's stock with the line's quantity
checkoutValidateNoStockCheck(p) ==
    /\ co[p].pc = "validate"
    /\ LET cartItem == co[p].items[co[p].i]
           last == co[p].i = Len(co[p].items)
       IN IF ~isActive[cartItem.product]
          THEN co' = [co EXCEPT ![p] = AnswerMessage(@, 400, "Product is no longer available")]
          ELSE IF cartItem.sku \notin SKUs \/ ProductOf(cartItem.sku) # cartItem.product
          THEN co' = [co EXCEPT ![p] = AnswerMessage(@, 400, "Insufficient stock")]
          ELSE co' = [co EXCEPT ![p] = [@ EXCEPT
                        !.orderItems = Append(@, [product |-> cartItem.product,
                                                  sku |-> cartItem.sku,
                                                  quantity |-> cartItem.quantity,
                                                  price |-> price[cartItem.sku],
                                                  weight |-> Weight(cartItem.sku)]),
                        !.subtotal = @ + price[cartItem.sku] * cartItem.quantity,
                        !.i = IF last THEN 1 ELSE @ + 1,
                        !.pc = IF last THEN "save" ELSE "validate"]]
    /\ Log({})
    /\ UNCHANGED <<totalStock, su, shipping, notifyErrors, price, cartV, ca, stock, stock0, isActive, cart, orders, cn, resp, faults>>

\* one iteration of the validation loop: Product.findById, the two checks, the snapshot
checkoutValidate(p) ==
    /\ co[p].pc = "validate"
    /\ LET cartItem == co[p].items[co[p].i]
           last == co[p].i = Len(co[p].items)
       IN IF ~isActive[cartItem.product]
          THEN co' = [co EXCEPT ![p] = AnswerMessage(@, 400, "Product is no longer available")]
          ELSE IF cartItem.sku \notin SKUs \/ ProductOf(cartItem.sku) # cartItem.product
                  \/ stock[cartItem.sku] < cartItem.quantity
          THEN co' = [co EXCEPT ![p] = AnswerMessage(@, 400, "Insufficient stock")]
          ELSE co' = [co EXCEPT ![p] = [@ EXCEPT
                        !.orderItems = Append(@, [product |-> cartItem.product,
                                                  sku |-> cartItem.sku,
                                                  quantity |-> cartItem.quantity,
                                                  price |-> price[cartItem.sku],
                                                  weight |-> Weight(cartItem.sku)]),
                        !.subtotal = @ + price[cartItem.sku] * cartItem.quantity,
                        !.i = IF last THEN 1 ELSE @ + 1,
                        !.pc = IF last THEN "save" ELSE "validate"]]
    /\ Log({})
    /\ UNCHANGED <<totalStock, su, shipping, notifyErrors, price, cartV, ca, stock, stock0, isActive, cart, orders, cn, resp, faults>>

\* shipping cost, totals, new Order(...), order.save()
checkoutSave(p, shippingMethod, optionCost) ==
    /\ co[p].pc = "save"
    /\ LET order == NewOrder(co[p].user, co[p].orderItems, co[p].subtotal,
                             shippingMethod, optionCost)
       IN IF ValidOrder(order)
          THEN /\ orders' = Append(orders, order)
               /\ co' = [co EXCEPT ![p] = [@ EXCEPT !.pc = "stock", !.order = Len(orders) + 1]]
          ELSE /\ orders' = orders
               /\ co' = [co EXCEPT ![p] = Answer(@, 500)]
    /\ Log({})
    /\ UNCHANGED <<totalStock, su, shipping, notifyErrors, price, cartV, ca, stock, stock0, isActive, cart, cn, resp, faults>>

\* one iteration of the stock loop: Product.updateOne($inc: -quantity)
checkoutStock(p) ==
    /\ co[p].pc = "stock"
    /\ LET item == co[p].orderItems[co[p].i]
           last == co[p].i = Len(co[p].orderItems)
       IN /\ stock' = [stock EXCEPT ![item.sku] = @ - item.quantity]
          /\ co' = [co EXCEPT ![p] = [@ EXCEPT
                        !.dec = [@ EXCEPT ![item.sku] = @ + item.quantity],
                        !.i = IF last THEN 0 ELSE @ + 1,
                        !.pc = IF last THEN "clear" ELSE "stock"]]
    /\ Log({})
    /\ UNCHANGED <<totalStock, su, shipping, notifyErrors, price, cartV, ca, stock0, isActive, cart, orders, cn, resp, faults>>

\* checkoutClear that answers without clearing the cart
checkoutClearKeepsCart(p, sent) ==
    /\ co[p].pc = "clear"
    /\ Log({Call(co[p].order, "confirmation", "pending")})
    /\ co' = [co EXCEPT ![p] = Answer(@, 201)]
    /\ Notify(sent)
    /\ UNCHANGED <<totalStock, su, shipping, price, cartV, ca, stock, stock0, isActive, cart, orders, cn, resp, faults>>

\* Cart.findOneAndUpdate($set: items: []), the notification, the 201 response
checkoutClear(p, sent) ==
    /\ co[p].pc = "clear"
    /\ Log({Call(co[p].order, "confirmation", "pending")})
    /\ cart' = [cart EXCEPT ![co[p].user] = <<>>]
    /\ Notify(sent)
    /\ co' = [co EXCEPT ![p] = Answer(@, 201)]
    /\ UNCHANGED <<totalStock, su, shipping, price, cartV, ca, stock, stock0, isActive, orders, cn, resp, faults>>

\* a store call of checkout throws: catch block, 500
checkoutFault(p) ==
    /\ co[p].pc \in {"validate", "save", "stock", "clear"}
    /\ CanFail
    /\ faults' = faults + 1
    /\ co' = [co EXCEPT ![p] = Answer(@, 500)]
    /\ Log({})
    /\ UNCHANGED <<totalStock, su, shipping, notifyErrors, price, cartV, ca, stock, stock0, isActive, cart, orders, cn, resp>>

checkout(p) ==
    \/ \E u \in Users : checkoutLoad(p, u)
    \/ checkoutValidate(p)
    \/ \E m \in ShippingMethods, c \in OptionCosts : checkoutSave(p, m, c)
    \/ checkoutStock(p)
    \/ checkoutClear(p, TRUE)

(***************************************************************************)
(* cancelOrder: PATCH /orders/:orderId/cancel                              *)
(***************************************************************************)
\* order ids a request may name: the orders of the store, or the id of no order while
\* the store has none
OrderIds == 1..Max(Len(orders), 1)

\* the CancelOrder calls of this model are served one after the other
AnsweredCancel(c) == cn[c].pc = "done"

\* cancelOrderLoad whose status check also lets a delivered order through
cancelOrderLoadDelivered(c, userId, orderId, cancelReason) ==
    /\ cn[c].pc = "idle"
    /\ \A d \in CancelIds : d < c => AnsweredCancel(d)
    /\ LET call == [cn[c] EXCEPT !.user = userId, !.order = orderId, !.reason = cancelReason]
       IN IF orderId > Len(orders) \/ orders[orderId].user # userId
          THEN cn' = [cn EXCEPT ![c] = AnswerCancel(call, 404)]
          ELSE IF orders[orderId].status \notin {"pending", "confirmed", "delivered"}
          THEN cn' = [cn EXCEPT ![c] = AnswerCancel(call, 400)]
          ELSE cn' = [cn EXCEPT ![c] = [call EXCEPT
                        !.pc = "restore", !.items = orders[orderId].items, !.i = 1,
                        !.previousStatus = orders[orderId].status]]
    /\ Log({})
    /\ UNCHANGED <<totalStock, su, shipping, notifyErrors, price, cartV, ca, stock, stock0, isActive, cart, orders, co, resp, faults>>

\* cancelOrderLoad that finds the order by its id alone, whoever owns it
cancelOrderLoadAnyUser(c, userId, orderId, cancelReason) ==
    /\ cn[c].pc = "idle"
    /\ \A d \in CancelIds : d < c => AnsweredCancel(d)
    /\ LET call == [cn[c] EXCEPT !.user = userId, !.order = orderId, !.reason = cancelReason]
       IN IF orderId > Len(orders)
          THEN cn' = [cn EXCEPT ![c] = AnswerCancel(call, 404)]
          ELSE IF orders[orderId].status \notin {"pending", "confirmed"}
          THEN cn' = [cn EXCEPT ![c] = AnswerCancel(call, 400)]
          ELSE cn' = [cn EXCEPT ![c] = [call EXCEPT
                        !.pc = "restore", !.items = orders[orderId].items, !.i = 1,
                        !.previousStatus = orders[orderId].status]]
    /\ Log({})
    /\ UNCHANGED <<totalStock, su, shipping, notifyErrors, price, cartV, ca, stock, stock0, isActive, cart, orders, co, resp, faults>>

\* Order.findOne({_id, user}), the not-found return, the status check
cancelOrderLoad(c, userId, orderId, cancelReason) ==
    /\ cn[c].pc = "idle"
    /\ \A d \in CancelIds : d < c => AnsweredCancel(d)
    /\ LET call == [cn[c] EXCEPT !.user = userId, !.order = orderId, !.reason = cancelReason]
       IN IF orderId > Len(orders) \/ orders[orderId].user # userId
          THEN cn' = [cn EXCEPT ![c] = AnswerCancel(call, 404)]
          ELSE IF orders[orderId].status \notin {"pending", "confirmed"}
          THEN cn' = [cn EXCEPT ![c] = AnswerCancel(call, 400)]
          ELSE cn' = [cn EXCEPT ![c] = [call EXCEPT
                        !.pc = "restore", !.items = orders[orderId].items, !.i = 1,
                        !.previousStatus = orders[orderId].status]]
    /\ Log({})
    /\ UNCHANGED <<totalStock, su, shipping, notifyErrors, price, cartV, ca, stock, stock0, isActive, cart, orders, co, resp, faults>>

\* cancelOrderRestore that gives back one unit per item whatever its quantity
cancelOrderRestoreOne(c) ==
    /\ cn[c].pc = "restore"
    /\ LET item == cn[c].items[cn[c].i]
           last == cn[c].i = Len(cn[c].items)
       IN /\ stock' = [stock EXCEPT ![item.sku] = @ + 1]
          /\ cn' = [cn EXCEPT ![c] = [@ EXCEPT
                        !.inc = [@ EXCEPT ![item.sku] = @ + 1],
                        !.i = IF last THEN 0 ELSE @ + 1,
                        !.pc = IF last THEN "save" ELSE "restore"]]
    /\ Log({})
    /\ UNCHANGED <<totalStock, su, shipping, notifyErrors, price, cartV, ca, stock0, isActive, cart, orders, co, resp, faults>>

\* one iteration of the restore loop: Product.updateOne($inc: +quantity)
cancelOrderRestore(c) ==
    /\ cn[c].pc = "restore"
    /\ LET item == cn[c].items[cn[c].i]
           last == cn[c].i = Len(cn[c].items)
       IN /\ stock' = [stock EXCEPT ![item.sku] = @ + item.quantity]
          /\ cn' = [cn EXCEPT ![c] = [@ EXCEPT
                        !.inc = [@ EXCEPT ![item.sku] = @ + item.quantity],
                        !.i = IF last THEN 0 ELSE @ + 1,
                        !.pc = IF last THEN "save" ELSE "restore"]]
    /\ Log({})
    /\ UNCHANGED <<totalStock, su, shipping, notifyErrors, price, cartV, ca, stock0, isActive, cart, orders, co, resp, faults>>

\* cancelOrderSave whose notification failure reaches the handler's catch block: 500
cancelOrderSaveNotifyThrows(c, sent) ==
    /\ cn[c].pc = "save"
    /\ Log({Call(cn[c].order, "order", "cancelled")})
    /\ orders' = [orders EXCEPT ![cn[c].order] =
                    [@ EXCEPT !.status = "cancelled", !.cancelReason = cn[c].reason]]
    /\ Notify(sent)
    /\ cn' = [cn EXCEPT ![c] = AnswerCancel(@, IF sent THEN 200 ELSE 500)]
    /\ UNCHANGED <<totalStock, su, shipping, price, cartV, ca, stock, stock0, isActive, cart, co, resp, faults>>

\* order.status = 'cancelled', order.cancelReason = cancelReason, order.save(), the
\* notification in its try block, 200
cancelOrderSave(c, sent) ==
    /\ cn[c].pc = "save"
    /\ Log({Call(cn[c].order, "order", "cancelled")})
    /\ orders' = [orders EXCEPT ![cn[c].order] =
                    [@ EXCEPT !.status = "cancelled", !.cancelReason = cn[c].reason]]
    /\ Notify(sent)
    /\ cn' = [cn EXCEPT ![c] = AnswerCancel(@, 200)]
    /\ UNCHANGED <<totalStock, su, shipping, price, cartV, ca, stock, stock0, isActive, cart, co, resp, faults>>

cancelOrder(c) ==
    \/ \E u \in Users, o \in OrderIds, r \in CancelReasons : cancelOrderLoad(c, u, o, r)
    \/ cancelOrderRestore(c)
    \/ cancelOrderSave(c, TRUE)

(***************************************************************************)
(* Admin and payment requests: findById, assignments, save                 *)
(***************************************************************************)
\* order.save() of a loaded document: validation, then the write
SaveOrder(orderId, doc) ==
    IF ValidOrder(doc)
    THEN /\ orders' = [orders EXCEPT ![orderId] = doc]
         /\ resp' = 200
    ELSE /\ orders' = orders
         /\ resp' = 500

\* the statuses NotificationService.handleOrderStatusChange sends a message for
NotifiedStatuses == {"confirmed", "shipped", "delivered", "cancelled"}

\* updateOrderStatus that assigns the tracking number also when the request has none
updateOrderStatusClearsTracking(orderId, status, trackingNumber, sent) ==
    /\ IF orderId > Len(orders)
       THEN /\ resp' = 404
            /\ orders' = orders
            /\ notifyErrors' = notifyErrors
       ELSE LET doc == [orders[orderId] EXCEPT
                          !.status = status,
                          !.trackingNumber = trackingNumber]
            IN /\ SaveOrder(orderId, doc)
               /\ IF /\ ValidOrder(doc)
                     /\ orders[orderId].status # status
                     /\ status \in NotifiedStatuses
                  THEN Notify(sent) ELSE notifyErrors' = notifyErrors
    /\ Log(IF resp' = 200 /\ orders[orderId].status # status
           THEN {Call(orderId, "order", status)} ELSE {})
    /\ UNCHANGED <<totalStock, su, shipping, price, cartV, ca, stock, stock0, isActive, cart, co, cn, faults>>

\* PATCH /orders/:orderId/status
updateOrderStatus(orderId, status, trackingNumber, sent) ==
    /\ IF orderId > Len(orders)
       THEN /\ resp' = 404
            /\ orders' = orders
            /\ notifyErrors' = notifyErrors
       ELSE LET doc == [orders[orderId] EXCEPT
                          !.status = status,
                          !.trackingNumber = IF trackingNumber # "" THEN trackingNumber ELSE @]
            IN /\ SaveOrder(orderId, doc)
               /\ IF /\ ValidOrder(doc)
                     /\ orders[orderId].status # status
                     /\ status \in NotifiedStatuses
                  THEN Notify(sent) ELSE notifyErrors' = notifyErrors
    /\ Log(IF resp' = 200 /\ orders[orderId].status # status
           THEN {Call(orderId, "order", status)} ELSE {})
    /\ UNCHANGED <<totalStock, su, shipping, price, cartV, ca, stock, stock0, isActive, cart, co, cn, faults>>

\* PATCH /orders/:orderId/payment
updatePaymentStatus(orderId, paymentStatus, sent) ==
    /\ IF orderId > Len(orders)
       THEN /\ resp' = 404
            /\ orders' = orders
            /\ notifyErrors' = notifyErrors
       ELSE LET doc == [orders[orderId] EXCEPT
                          !.paymentStatus = paymentStatus,
                          !.status = IF paymentStatus = "paid" /\ @ = "pending"
                                     THEN "confirmed" ELSE @]
            IN /\ SaveOrder(orderId, doc)
               /\ IF /\ ValidOrder(doc)
                     /\ \/ orders[orderId].paymentStatus # paymentStatus
                              /\ paymentStatus = "paid"
                        \/ orders[orderId].status # doc.status
                              /\ doc.status \in NotifiedStatuses
                  THEN Notify(sent) ELSE notifyErrors' = notifyErrors
    /\ Log(IF resp' = 200
           THEN (IF orders[orderId].paymentStatus # paymentStatus
                 THEN {Call(orderId, "payment", paymentStatus)} ELSE {})
                \cup (IF orders[orderId].status # orders'[orderId].status
                      THEN {Call(orderId, "order", orders'[orderId].status)} ELSE {})
           ELSE {})
    /\ UNCHANGED <<totalStock, su, shipping, price, cartV, ca, stock, stock0, isActive, cart, co, cn, faults>>

\* transaction_status values of the payment gateway
TransactionStatuses == {"capture", "settlement", "pending", "deny", "cancel", "expire", "refund"}

\* POST /payments/notification
handleNotification(orderId, signatureOk, transactionStatus) ==
    /\ IF ~signatureOk
       THEN /\ resp' = 400
            /\ orders' = orders
       ELSE IF orderId > Len(orders)
       THEN /\ resp' = 404
            /\ orders' = orders
       ELSE SaveOrder(orderId,
                CASE transactionStatus \in {"capture", "settlement"} ->
                        [orders[orderId] EXCEPT !.paymentStatus = "paid", !.status = "processing"]
                  [] transactionStatus = "pending" ->
                        [orders[orderId] EXCEPT !.paymentStatus = "pending"]
                  [] transactionStatus \in {"deny", "cancel", "expire"} ->
                        [orders[orderId] EXCEPT !.paymentStatus = "failed", !.status = "cancelled"]
                  [] OTHER ->
                        [orders[orderId] EXCEPT !.paymentStatus = "pending"])
    /\ Log({})
    /\ UNCHANGED <<totalStock, su, shipping, notifyErrors, price, cartV, ca, stock, stock0, isActive, cart, co, cn, faults>>

\* POST /payments/create
createPayment(userId, orderId) ==
    /\ IF orderId > Len(orders)
       THEN /\ resp' = 404
            /\ orders' = orders
       ELSE IF orders[orderId].user # userId
       THEN /\ resp' = 403
            /\ orders' = orders
       ELSE IF orders[orderId].paymentStatus = "paid"
       THEN /\ resp' = 400
            /\ orders' = orders
       ELSE SaveOrder(orderId, [orders[orderId] EXCEPT !.paymentStatus = "pending"])
    /\ Log({})
    /\ UNCHANGED <<totalStock, su, shipping, notifyErrors, price, cartV, ca, stock, stock0, isActive, cart, co, cn, faults>>

\* POST /payments/:orderId/cancel
cancelPayment(userId, orderId) ==
    /\ IF orderId > Len(orders)
       THEN /\ resp' = 404
            /\ orders' = orders
       ELSE IF orders[orderId].user # userId
       THEN /\ resp' = 403
            /\ orders' = orders
       ELSE IF orders[orderId].paymentStatus = "paid"
       THEN /\ resp' = 400
            /\ orders' = orders
       ELSE SaveOrder(orderId,
                [orders[orderId] EXCEPT !.paymentStatus = "cancelled", !.status = "cancelled"])
    /\ Log({})
    /\ UNCHANGED <<totalStock, su, shipping, notifyErrors, price, cartV, ca, stock, stock0, isActive, cart, co, cn, faults>>

\* PUT /products/:id with isActive
updateProduct(id, active) ==
    /\ isActive' = [isActive EXCEPT ![id] = active]
    /\ resp' = 200
    /\ Log({})
    /\ UNCHANGED <<totalStock, su, shipping, notifyErrors, price, cartV, ca, stock, stock0, cart, orders, co, cn, faults>>

\* updateProductSKU that also rewrites the price of the SKU in the items of the orders
updateProductSKURepricesOrders(skuId, newPrice) ==
    /\ price' = [price EXCEPT ![skuId] = newPrice]
    /\ orders' = [o \in 1..Len(orders) |->
                    [orders[o] EXCEPT !.items =
                        [i \in 1..Len(@) |-> IF @[i].sku = skuId
                                             THEN [@[i] EXCEPT !.price = newPrice] ELSE @[i]]]]
    /\ resp' = 200
    /\ Log({})
    /\ totalStock' = IF newPrice # price[skuId]
                     THEN [totalStock EXCEPT ![ProductOf(skuId)] = TotalOf(stock, ProductOf(skuId))]
                     ELSE totalStock
    /\ UNCHANGED <<su, shipping, notifyErrors, cartV, ca, stock, stock0, isActive, cart, co, cn, faults>>

\* PUT /products/:id/skus/:skuId with a price, its load and its save in one step: the save
\* writes the SKU's price, if it differs from the stored one, and then also the totalStock
\* the pre-save hook computed
updateProductSKU(skuId, newPrice) ==
    /\ price' = [price EXCEPT ![skuId] = newPrice]
    /\ resp' = 200
    /\ Log({})
    /\ totalStock' = IF newPrice # price[skuId]
                     THEN [totalStock EXCEPT ![ProductOf(skuId)] = TotalOf(stock, ProductOf(skuId))]
                     ELSE totalStock
    /\ UNCHANGED <<su, shipping, notifyErrors, cartV, ca, stock, stock0, isActive, cart, orders, co, cn, faults>>

\* PUT /products/:id/skus/:skuId with a stock: Product.findById and the SKU lookup
updateProductSKULoad(skuId, newStock) ==
    /\ su.pc = "idle"
    /\ su' = [pc |-> "save", sku |-> skuId, stock |-> newStock, skus |-> stock]
    /\ Log({})
    /\ UNCHANGED <<totalStock, shipping, notifyErrors, price, cartV, ca, stock, stock0, isActive,
                   cart, orders, co, cn, resp, faults>>

\* PUT /products/:id/skus/:skuId with a stock: the assignment and product.save(), which
\* writes nothing if the stock is the one that was loaded, and else the SKU's stock and the
\* totalStock the pre-save hook computed from the loaded skus
updateProductSKUSave ==
    /\ su.pc = "save"
    /\ LET skus == [su.skus EXCEPT ![su.sku] = su.stock]
       IN IF su.stock # su.skus[su.sku]
          THEN /\ stock' = [stock EXCEPT ![su.sku] = su.stock]
               /\ totalStock' = [totalStock EXCEPT ![ProductOf(su.sku)] =
                                    TotalOf(skus, ProductOf(su.sku))]
          ELSE UNCHANGED <<stock, totalStock>>
    /\ su' = IdleSKUUpdate
    /\ resp' = 200
    /\ Log({})
    /\ UNCHANGED <<shipping, notifyErrors, price, cartV, ca, stock0, isActive, cart, orders, co,
                   cn, faults>>

(***************************************************************************)
(* Cart requests: addToCart, updateCartItem, removeFromCart, clearCart.    *)
(* Each loads the cart document (items and __v), changes it in memory and  *)
(* calls cart.save(), which sends what changed: a $push for a pushed line  *)
(* (no version test, __v incremented), a $set of one line's quantity with  *)
(* a test of __v, a $set of the whole array with a test and an increment   *)
(* of __v. A failed version test is a VersionError: the catch block, 500.  *)
(***************************************************************************)
\* the earlier cart requests have started
StartedCart(k) == \A j \in CartCallIds : j < k => ca[j].pc # "idle"

AnswerCart(c, code) == [c EXCEPT !.pc = "done", !.items = <<>>, !.result = code]

\* index of the line of (product, sku) in items, 0 if there is none: findIndex
LineIndex(items, productId, skuCode) ==
    IF \E i \in 1..Len(items) : items[i].product = productId /\ items[i].sku = skuCode
    THEN CHOOSE i \in 1..Len(items) :
            /\ items[i].product = productId /\ items[i].sku = skuCode
            /\ \A j \in 1..(i - 1) : ~(items[j].product = productId /\ items[j].sku = skuCode)
    ELSE 0

\* items.splice(index, 1)
Splice(items, index) ==
    [i \in 1..(Len(items) - 1) |-> IF i < index THEN items[i] ELSE items[i + 1]]

\* addToCart: Product.findById, the product, SKU and stock checks
addToCartProduct(k, userId, skuCode, quantity) ==
    /\ ca[k].pc = "idle"
    /\ StartedCart(k)
    /\ LET call == [ca[k] EXCEPT !.op = "addToCart", !.user = userId, !.sku = skuCode,
                                 !.quantity = quantity]
       IN IF ~isActive[ProductOf(skuCode)]
          THEN ca' = [ca EXCEPT ![k] = AnswerCart(call, 404)]
          ELSE IF stock[skuCode] < quantity
          THEN ca' = [ca EXCEPT ![k] = AnswerCart(call, 400)]
          ELSE ca' = [ca EXCEPT ![k] = [call EXCEPT !.pc = "load", !.stock = stock[skuCode],
                                                    !.price = price[skuCode]]]
    /\ Log({})
    /\ UNCHANGED <<totalStock, su, shipping, notifyErrors, price, cartV, stock, stock0, isActive, cart, orders,
                   co, cn, resp, faults>>

\* addToCartLoad without the comparison of the raised quantity with the SKU's stock
addToCartLoadNoTotalCheck(k) ==
    /\ ca[k].pc = "load"
    /\ ca[k].op = "addToCart"
    /\ LET items == cart[ca[k].user]
           existingItemIndex == LineIndex(items, ProductOf(ca[k].sku), ca[k].sku)
       IN IF existingItemIndex > 0
          THEN ca' = [ca EXCEPT ![k] = [@ EXCEPT
                        !.pc = "save", !.itemId = existingItemIndex,
                        !.quantity = items[existingItemIndex].quantity + @,
                        !.v = cartV[ca[k].user]]]
          ELSE ca' = [ca EXCEPT ![k] = [@ EXCEPT !.pc = "save", !.itemId = 0,
                                                 !.v = cartV[ca[k].user]]]
    /\ Log({})
    /\ UNCHANGED <<totalStock, su, shipping, notifyErrors, price, cartV, stock, stock0, isActive, cart, orders,
                   co, cn, resp, faults>>

\* addToCart: Cart.findOne, findIndex, the quantity update and its stock check, or the push
addToCartLoad(k) ==
    /\ ca[k].pc = "load"
    /\ ca[k].op = "addToCart"
    /\ LET items == cart[ca[k].user]
           existingItemIndex == LineIndex(items, ProductOf(ca[k].sku), ca[k].sku)
       IN IF existingItemIndex > 0
          THEN IF items[existingItemIndex].quantity + ca[k].quantity > ca[k].stock
               THEN ca' = [ca EXCEPT ![k] = AnswerCart(@, 400)]
               ELSE ca' = [ca EXCEPT ![k] = [@ EXCEPT
                             !.pc = "save", !.itemId = existingItemIndex,
                             !.quantity = items[existingItemIndex].quantity + @,
                             !.v = cartV[ca[k].user]]]
          ELSE ca' = [ca EXCEPT ![k] = [@ EXCEPT !.pc = "save", !.itemId = 0,
                                                 !.v = cartV[ca[k].user]]]
    /\ Log({})
    /\ UNCHANGED <<totalStock, su, shipping, notifyErrors, price, cartV, stock, stock0, isActive, cart, orders,
                   co, cn, resp, faults>>

\* cart.save() of a pushed line: validation (quantity min 1), then $push, __v incremented,
\* no version test
SavePush(k, line) ==
    IF line.quantity >= 1
    THEN /\ cart' = [cart EXCEPT ![ca[k].user] = Append(@, line)]
         /\ cartV' = [cartV EXCEPT ![ca[k].user] = @ + 1]
         /\ ca' = [ca EXCEPT ![k] = AnswerCart(@, 200)]
    ELSE /\ UNCHANGED <<cart, cartV>>
         /\ ca' = [ca EXCEPT ![k] = AnswerCart(@, 500)]

\* an array element the store creates for a $set below it: only the quantity is set
\* (quantity 0: the element is null)
OnlyQuantity(q) == [product |-> "", sku |-> "", quantity |-> q, price |-> 0]

\* $set items.<index>.quantity: the element's quantity; an array that is shorter is filled
\* up with null elements and gets an element that has the quantity only
SetQuantity(items, index, q) ==
    [i \in 1..Max(Len(items), index) |->
        IF i = index
        THEN (IF i <= Len(items) THEN [items[i] EXCEPT !.quantity = q] ELSE OnlyQuantity(q))
        ELSE (IF i <= Len(items) THEN items[i] ELSE OnlyQuantity(0))]

\* cart.save() of one line's quantity: validation (quantity min 1), then
\* $set items.<index>.quantity where __v is as loaded
SaveQuantity(k) ==
    IF ca[k].quantity >= 1 /\ cartV[ca[k].user] = ca[k].v
    THEN /\ cart' = [cart EXCEPT ![ca[k].user] = SetQuantity(@, ca[k].itemId, ca[k].quantity)]
         /\ cartV' = cartV
         /\ ca' = [ca EXCEPT ![k] = AnswerCart(@, 200)]
    ELSE /\ UNCHANGED <<cart, cartV>>
         /\ ca' = [ca EXCEPT ![k] = AnswerCart(@, 500)]

\* cart.save() of a new array: $set items where __v is as loaded, __v incremented
SaveItems(k) ==
    IF cartV[ca[k].user] = ca[k].v
    THEN /\ cart' = [cart EXCEPT ![ca[k].user] = ca[k].items]
         /\ cartV' = [cartV EXCEPT ![ca[k].user] = @ + 1]
         /\ ca' = [ca EXCEPT ![k] = AnswerCart(@, 200)]
    ELSE /\ UNCHANGED <<cart, cartV>>
         /\ ca' = [ca EXCEPT ![k] = AnswerCart(@, 500)]

\* addToCart: cart.save() and the 200 response
addToCartSave(k) ==
    /\ ca[k].pc = "save"
    /\ ca[k].op = "addToCart"
    /\ IF ca[k].itemId = 0
       THEN SavePush(k, [product |-> ProductOf(ca[k].sku), sku |-> ca[k].sku,
                         quantity |-> ca[k].quantity, price |-> ca[k].price])
       ELSE SaveQuantity(k)
    /\ Log({})
    /\ UNCHANGED <<totalStock, su, shipping, notifyErrors, price, stock, stock0, isActive, orders, co, cn, resp,
                   faults>>

\* updateCartItem: the quantity check, Cart.findOne, find by item id
updateCartItemLoad(k, userId, itemId, quantity) ==
    /\ ca[k].pc = "idle"
    /\ StartedCart(k)
    /\ LET call == [ca[k] EXCEPT !.op = "updateCartItem", !.user = userId,
                                 !.quantity = quantity]
       IN IF quantity < 1
          THEN ca' = [ca EXCEPT ![k] = AnswerCart(call, 400)]
          ELSE IF itemId > Len(cart[userId])
          THEN ca' = [ca EXCEPT ![k] = AnswerCart(call, 404)]
          ELSE ca' = [ca EXCEPT ![k] = [call EXCEPT !.pc = "product", !.itemId = itemId,
                                                    !.sku = cart[userId][itemId].sku,
                                                    !.v = cartV[userId]]]
    /\ Log({})
    /\ UNCHANGED <<totalStock, su, shipping, notifyErrors, price, cartV, stock, stock0, isActive, cart, orders,
                   co, cn, resp, faults>>

\* updateCartItem: Product.findById and the stock check
updateCartItemProduct(k) ==
    /\ ca[k].pc = "product"
    /\ IF ca[k].sku \notin SKUs \/ stock[ca[k].sku] < ca[k].quantity
       THEN ca' = [ca EXCEPT ![k] = AnswerCart(@, 400)]
       ELSE ca' = [ca EXCEPT ![k] = [@ EXCEPT !.pc = "save", !.stock = stock[ca[k].sku]]]
    /\ Log({})
    /\ UNCHANGED <<totalStock, su, shipping, notifyErrors, price, cartV, stock, stock0, isActive, cart, orders,
                   co, cn, resp, faults>>

\* updateCartItem: item.quantity = quantity, cart.save()
updateCartItemSave(k) ==
    /\ ca[k].pc = "save"
    /\ ca[k].op = "updateCartItem"
    /\ SaveQuantity(k)
    /\ Log({})
    /\ UNCHANGED <<totalStock, su, shipping, notifyErrors, price, stock, stock0, isActive, orders, co, cn, resp,
                   faults>>

\* removeFromCart: Cart.findOne, findIndex by item id, splice
removeFromCartLoad(k, userId, itemId) ==
    /\ ca[k].pc = "idle"
    /\ StartedCart(k)
    /\ LET call == [ca[k] EXCEPT !.op = "removeFromCart", !.user = userId]
       IN IF itemId > Len(cart[userId])
          THEN ca' = [ca EXCEPT ![k] = AnswerCart(call, 404)]
          ELSE ca' = [ca EXCEPT ![k] = [call EXCEPT !.pc = "save", !.itemId = itemId,
                                                    !.items = Splice(cart[userId], itemId),
                                                    !.v = cartV[userId]]]
    /\ Log({})
    /\ UNCHANGED <<totalStock, su, shipping, notifyErrors, price, cartV, stock, stock0, isActive, cart, orders,
                   co, cn, resp, faults>>

\* removeFromCart: cart.save()
removeFromCartSave(k) ==
    /\ ca[k].pc = "save"
    /\ ca[k].op = "removeFromCart"
    /\ SaveItems(k)
    /\ Log({})
    /\ UNCHANGED <<totalStock, su, shipping, notifyErrors, price, stock, stock0, isActive, orders, co, cn, resp,
                   faults>>

\* clearCart: Cart.findOne, cart.items = []
clearCartLoad(k, userId) ==
    /\ ca[k].pc = "idle"
    /\ StartedCart(k)
    /\ ca' = [ca EXCEPT ![k] = [@ EXCEPT !.op = "clearCart", !.user = userId, !.pc = "save",
                                         !.items = <<>>, !.v = cartV[userId]]]
    /\ Log({})
    /\ UNCHANGED <<totalStock, su, shipping, notifyErrors, price, cartV, stock, stock0, isActive, cart, orders,
                   co, cn, resp, faults>>

\* clearCart: cart.save()
clearCartSave(k) ==
    /\ ca[k].pc = "save"
    /\ ca[k].op = "clearCart"
    /\ SaveItems(k)
    /\ Log({})
    /\ UNCHANGED <<totalStock, su, shipping, notifyErrors, price, stock, stock0, isActive, orders, co, cn, resp,
                   faults>>

\* quantities and item ids a cart request may carry
CartQuantities == 0..MaxQty
AddQuantities == -1..MaxQty
ItemIds == 1..2

cartRequest(k) ==
    \/ \E u \in Users, s \in SKUs, q \in AddQuantities : addToCartProduct(k, u, s, q)
    \/ addToCartLoad(k)
    \/ addToCartSave(k)
    \/ \E u \in Users, i \in ItemIds, q \in CartQuantities : updateCartItemLoad(k, u, i, q)
    \/ updateCartItemProduct(k)
    \/ updateCartItemSave(k)
    \/ \E u \in Users, i \in ItemIds : removeFromCartLoad(k, u, i)
    \/ removeFromCartSave(k)
    \/ \E u \in Users : clearCartLoad(k, u)
    \/ clearCartSave(k)

\* status values an admin may send: the enum and one value outside it
StatusInputs == OrderStatusEnum \cup {"paid"}
PaymentStatusInputs == PaymentStatusEnum \cup {"cancelled"}

(***************************************************************************)
(* Specifications                                                          *)
(***************************************************************************)
\* The order life cycle: one Checkout call on a fully stocked catalog, CancelOrder calls,
\* admin and payment requests.
Init ==
    /\ stock = [s \in SKUs |-> MaxStock]
    /\ cart = [u \in Users |-> IF u = "u1" THEN <<Line("A", MaxQty)>>
                                          ELSE <<Line("B", 1), Line("A", 1)>>]
    /\ InitCalls
    /\ faults = MaxFaults

Next ==
    \/ checkout(1)
    \/ \E c \in CancelIds : cancelOrder(c)
    \/ \E o \in OrderIds, s \in StatusInputs, t \in TrackingNumbers :
          updateOrderStatus(o, s, t, TRUE)
    \/ \E o \in OrderIds, s \in PaymentStatusInputs : updatePaymentStatus(o, s, TRUE)
    \/ \E o \in OrderIds, t \in TransactionStatuses : handleNotification(o, TRUE, t)
    \/ handleNotification(1, FALSE, "settlement")
    \/ \E u \in Users, o \in OrderIds : createPayment(u, o)
    \/ \E u \in Users, o \in OrderIds : cancelPayment(u, o)

Spec == Init /\ [][Next]_vars

\* Concurrent Checkout calls and catalog edits, no store failure.
InitCheckout ==
    /\ InitStore
    /\ faults = MaxFaults

NextCheckout ==
    \/ \E p \in CheckoutIds : checkout(p)
    \/ \E p \in Products, a \in BOOLEAN : updateProduct(p, a)

SpecCheckout == InitCheckout /\ [][NextCheckout]_vars

\* Concurrent Checkout calls with store failures.
InitFaults ==
    /\ InitStore
    /\ faults = 0

NextFaults ==
    \/ \E p \in CheckoutIds : checkout(p)
    \/ \E p \in CheckoutIds : checkoutFault(p)

SpecFaults == InitFaults /\ [][NextFaults]_vars

\* Two Checkout calls while an admin edits the catalog (product activation, SKU prices)
\* between any two store operations. u1 has a cart of two lines; u2 has an empty cart or a
\* line whose SKU has since been removed from its product.
InitCatalog ==
    /\ stock \in [SKUs -> {0, MaxStock}]
    /\ cart \in {[u \in Users |-> IF u = "u1" THEN <<Line("A", MaxQty), Line("B", 1)>> ELSE c] :
                    c \in {<<>>, <<Line("Z", 1)>>}}
    /\ InitCalls
    /\ faults = MaxFaults

NextCatalog ==
    \/ \E p \in 1..2 : checkout(p)
    \/ \E p \in Products, a \in BOOLEAN : updateProduct(p, a)
    \/ \E s \in SKUs, n \in Prices : updateProductSKU(s, n)

SpecCatalog == InitCatalog /\ [][NextCatalog]_vars

\* The order life cycle with a Notification Gateway that may fail: one Checkout call, one
\* CancelOrder call and admin updates, each with its notification sent or failed.
NextNotify ==
    \/ checkout(1)
    \/ checkoutClear(1, FALSE)
    \/ cancelOrder(1)
    \/ cancelOrderSave(1, FALSE)
    \/ \E o \in OrderIds, s \in StatusInputs, t \in TrackingNumbers, sent \in BOOLEAN :
          updateOrderStatus(o, s, t, sent)
    \/ \E o \in OrderIds, s \in PaymentStatusInputs, sent \in BOOLEAN :
          updatePaymentStatus(o, s, sent)

SpecNotify == Init /\ [][NextNotify]_vars

\* The life of one order while an admin edits the catalog: one Checkout call, one
\* CancelOrder call, admin and payment requests, product and SKU updates.
NextSnapshot ==
    \/ checkout(1)
    \/ cancelOrder(1)
    \/ \E o \in OrderIds, s \in OrderStatusEnum : updateOrderStatus(o, s, "JNE123", TRUE)
    \/ \E o \in OrderIds, s \in PaymentStatusEnum : updatePaymentStatus(o, s, TRUE)
    \/ \E o \in OrderIds, t \in TransactionStatuses : handleNotification(o, TRUE, t)
    \/ \E o \in 1..Len(orders) : cancelPayment(orders[o].user, o)
    \/ \E a \in BOOLEAN : updateProduct("p1", a)
    \/ \E n \in Prices : updateProductSKU("A", n)

SpecSnapshot == Init /\ [][NextSnapshot]_vars

\* calculateShippingCost on its own: any method, one item of any weight and quantity
ShippingMethodInputs == {"regular", "express", "same_day", "JNE:REG"}
ItemWeights == {0, 1, 99, 100, 250, 300, 500, 1000, 7500, 500000, 625000, 750000, 750025,
                833334, 1000000}

InitShipping ==
    /\ stock = [s \in SKUs |-> MaxStock]
    /\ cart = [u \in Users |-> <<>>]
    /\ stock0 = stock
    /\ isActive = [p \in Products |-> TRUE]
    /\ orders = <<>>
    /\ co = [p \in CheckoutIds |-> IdleCheckout]
    /\ cn = [c \in CancelIds |-> IdleCancel]
    /\ resp = 0
    /\ price = [s \in SKUs |-> Price(s)]
    /\ cartV = [u \in Users |-> 0]
    /\ ca = [k \in CartCallIds |-> IdleCartCall]
    /\ notifyErrors = 0
    /\ notice = NoLog
    /\ totalStock = [p \in Products |-> TotalOf(stock, p)]
    /\ su = IdleSKUUpdate
    /\ faults = MaxFaults
    /\ shipping \in [shippingMethod : ShippingMethodInputs,
                      items : {<<[weight |-> w, quantity |-> q]>> :
                                  w \in ItemWeights, q \in 1..MaxQty},
                      cost100 : {-1}]

\* the call returns
calculateShippingCostReturn ==
    /\ shipping.cost100 = -1
    /\ shipping' = [shipping EXCEPT
                       !.cost100 = calculateShippingCost100(shipping.shippingMethod, shipping.items)]
    /\ UNCHANGED <<stock, stock0, isActive, cart, orders, co, cn, resp, faults, price, cartV, ca,
                   notifyErrors, notice, totalStock, su>>

NextShipping == calculateShippingCostReturn

SpecShipping == InitShipping /\ [][NextShipping]_vars

\* Concurrent cart requests of two users on a stocked catalog: u1's cart is empty or has a
\* line of SKU A, u2's cart has a line of SKU B.
InitCart ==
    /\ stock = [s \in SKUs |-> MaxStock]
    /\ cart \in {[u \in Users |-> IF u = "u1" THEN c ELSE <<Line("B", 1)>>] :
                    c \in {<<>>, <<Line("A", 1)>>}}
    /\ InitCalls
    /\ faults = MaxFaults

NextCart == \E k \in CartCallIds : cartRequest(k)

SpecCart == InitCart /\ [][NextCart]_vars

\* A Checkout call while the users add lines to their carts and update them.
addToCart(k) ==
    \/ \E u \in Users, s \in SKUs, q \in 1..MaxQty : addToCartProduct(k, u, s, q)
    \/ addToCartLoad(k)
    \/ addToCartSave(k)

updateCartItem(k) ==
    \/ \E u \in Users, i \in ItemIds, q \in 1..MaxQty : updateCartItemLoad(k, u, i, q)
    \/ updateCartItemProduct(k)
    \/ updateCartItemSave(k)

InitCartCheckout ==
    /\ stock = [s \in SKUs |-> MaxStock]
    /\ cart = [u \in Users |-> IF u = "u1" THEN <<Line("A", 1)>> ELSE <<>>]
    /\ InitCalls
    /\ faults = MaxFaults

NextCartCheckout ==
    \/ checkout(1)
    \/ \E k \in CartCallIds : addToCart(k)
    \/ \E k \in CartCallIds : updateCartItem(k)

SpecCartCheckout == InitCartCheckout /\ [][NextCartCheckout]_vars

\* The life of one order with the NotificationService's log on: one Checkout call, one
\* CancelOrder call, admin and payment requests, gateway notifications.
InitGateway ==
    /\ stock = [s \in SKUs |-> MaxStock]
    /\ cart = [u \in Users |-> IF u = "u1" THEN <<Line("A", MaxQty)>> ELSE <<>>]
    /\ stock0 = stock
    /\ isActive = [p \in Products |-> TRUE]
    /\ orders = <<>>
    /\ co = [p \in CheckoutIds |-> IdleCheckout]
    /\ cn = [c \in CancelIds |-> IdleCancel]
    /\ resp = 0
    /\ price = [s \in SKUs |-> Price(s)]
    /\ cartV = [u \in Users |-> 0]
    /\ ca = [k \in CartCallIds |-> IdleCartCall]
    /\ notifyErrors = 0
    /\ notice = [on |-> TRUE, calls |-> {}]
    /\ totalStock = [p \in Products |-> TotalOf(stock, p)]
    /\ su = IdleSKUUpdate
    /\ faults = MaxFaults
    /\ shipping = NoShippingCall

NextGateway ==
    \/ checkout(1)
    \/ cancelOrder(1)
    \/ \E o \in OrderIds, s \in OrderStatusEnum, t \in TrackingNumbers :
          updateOrderStatus(o, s, t, TRUE)
    \/ \E o \in OrderIds, s \in PaymentStatusEnum : updatePaymentStatus(o, s, TRUE)
    \/ \E o \in OrderIds, t \in TransactionStatuses : handleNotification(o, TRUE, t)
    \/ \E o \in 1..Len(orders) : cancelPayment(orders[o].user, o)

SpecGateway == InitGateway /\ [][NextGateway]_vars

\* Stock under catalog edits: one Checkout call and one CancelOrder call while an admin
\* updates SKU A (a new stock, loaded and saved in two store operations, or a new price).
\* stocks an admin may give a SKU
StockInputs == 0..MaxStock

NextStock ==
    \/ checkout(1)
    \/ cancelOrder(1)
    \/ \E n \in StockInputs : updateProductSKULoad("A", n)
    \/ updateProductSKUSave
    \/ updateProductSKU("A", 150000)

SpecStock == Init /\ [][NextStock]_vars

(***************************************************************************)
(* Properties                                                              *)
(***************************************************************************)
\* quantity of SKU s in the orders of the Checkout calls that answered 201
SoldQty(s) ==
    SumSeq([p \in CheckoutIds |->
              IF co[p].result = 201 THEN QtyOf(orders[co[p].order].items, s) ELSE 0])

\* every Checkout call that started has answered
Settled == \A p \in CheckoutIds : co[p].pc \in {"idle", "done"}

\* C1: under concurrent Checkout calls the stock of every SKU is never negative, and once
\* all calls have settled it is the initial stock minus the quantities of the checkouts
\* that succeeded.
C1_StockNonNegative ==
    \A s \in SKUs :
        /\ stock[s] >= 0
        /\ Settled => stock[s] = stock0[s] - SoldQty(s)

\* C2: the quantities of the Checkout calls that answered success never add up to more
\* than the stock the SKU had before the calls started (with stock 1 and two calls for
\* 1 unit each, only one succeeds).
C2_NoOverselling ==
    \A s \in SKUs : SoldQty(s) <= stock0[s]

\* C3: when a Checkout call has returned, with success or with an error, what it
\* decremented from each SKU is the quantity of that SKU in the Order it persisted, and
\* nothing when it persisted none.
C3_ReservationOrderSymmetry ==
    \A p \in CheckoutIds :
        co[p].pc = "done" =>
            \A s \in SKUs :
                co[p].dec[s] = IF co[p].order = 0 THEN 0
                               ELSE QtyOf(orders[co[p].order].items, s)

\* C4: every Order has totalAmount = subtotal + shippingCost + taxAmount - discountAmount
\* and subtotal = the sum of price * quantity over its items, after checkout and after any
\* status, payment or cancel request.
C4_TotalArithmetic ==
    \A o \in 1..Len(orders) :
        /\ orders[o].totalAmount =
              orders[o].subtotal + orders[o].shippingCost + orders[o].taxAmount
              - orders[o].discountAmount
        /\ orders[o].subtotal = Subtotal(orders[o].items)

\* an order of subtotal 598000 and shipping 15000 has total 613000, also once it has been
\* paid and cancelled
C4_Witness ==
    \E o \in 1..Len(orders) :
        /\ orders[o].subtotal = 598000
        /\ orders[o].shippingCost = 15000
        /\ orders[o].taxAmount = 0
        /\ orders[o].discountAmount = 0
        /\ orders[o].totalAmount = 613000
        /\ orders[o].paymentStatus = "paid"
        /\ orders[o].status = "cancelled"

\* the fulfillment status graph of the specification
AllowedNext(status) ==
    CASE status = "pending"    -> {"confirmed", "cancelled"}
      [] status = "confirmed"  -> {"processing", "cancelled"}
      [] status = "processing" -> {"shipped"}
      [] status = "shipped"    -> {"delivered"}
      [] status = "delivered"  -> {"returned"}
      [] OTHER -> {}

\* the payment status graph of the specification
AllowedNextPayment(paymentStatus) ==
    CASE paymentStatus = "pending" -> {"paid", "failed", "cancelled"}
      [] paymentStatus = "paid"    -> {"refunded"}
      [] OTHER -> {}

\* C5: an admin status update whose target is not an allowed next state of the order's
\* status answers an invalid-state error (400) and leaves the order as it was.
C5_StateMachineClosure ==
    [][\A o \in OrderIds, s \in StatusInputs, t \in TrackingNumbers :
          (/\ o <= Len(orders)
           /\ s \notin AllowedNext(orders[o].status)
           /\ updateOrderStatus(o, s, t, TRUE))
          => (orders' = orders /\ resp' = 400)]_vars

\* C6: every change of an order's fulfillment status follows an edge of
\* pending -> confirmed -> processing -> shipped -> delivered, cancelled from pending or
\* confirmed, returned from delivered.
C6_StatusFollowsGraph ==
    [][\A o \in 1..Len(orders) :
          orders'[o].status # orders[o].status
          => orders'[o].status \in AllowedNext(orders[o].status)]_vars

\* C7: every change of paymentStatus is pending -> paid, pending -> failed,
\* paid -> refunded or pending -> cancelled, and an admin payment update asking for any
\* other transition is rejected (400) and leaves the order as it was.
C7_PaymentFollowsGraph ==
    [][/\ \A o \in 1..Len(orders) :
             orders'[o].paymentStatus # orders[o].paymentStatus
             => orders'[o].paymentStatus \in AllowedNextPayment(orders[o].paymentStatus)
       /\ \A o \in OrderIds, s \in PaymentStatusInputs :
             (/\ o <= Len(orders)
              /\ s \notin AllowedNextPayment(orders[o].paymentStatus)
              /\ updatePaymentStatus(o, s, TRUE))
             => (orders' = orders /\ resp' = 400)]_vars

\* C8: whenever a request sets an order's paymentStatus to paid, the fulfillment status
\* becomes confirmed if it was pending and stays as it was otherwise.
C8_PaidAutoConfirms ==
    [][\A o \in 1..Len(orders) :
          (orders[o].paymentStatus # "paid" /\ orders'[o].paymentStatus = "paid")
          => orders'[o].status = IF orders[o].status = "pending" THEN "confirmed"
                                 ELSE orders[o].status]_vars

NoStock == [s \in SKUs |-> 0]

\* C9: a CancelOrder call goes on to restore stock only for an order it found pending or
\* confirmed; on an order in any other status it fails at once (400 for the owner, 404 for
\* anyone else), and neither the order nor any stock is changed by it.
C9_CancelOnlyPendingOrConfirmed ==
    [][\A c \in CancelIds :
          /\ \A u \in Users, o \in OrderIds, r \in CancelReasons :
                (/\ cn[c].pc = "idle"
                 /\ cn'[c].pc # "idle"
                 /\ o <= Len(orders)
                 /\ orders[o].status \notin {"pending", "confirmed"}
                 /\ cancelOrderLoad(c, u, o, r))
                => (/\ cn'[c].pc = "done"
                    /\ cn'[c].result = IF orders[o].user = u THEN 400 ELSE 404
                    /\ cn'[c].inc = NoStock
                    /\ orders' = orders
                    /\ stock' = stock)
          /\ (cn[c].pc = "idle" /\ cn'[c].pc = "restore")
                => orders[cn'[c].order].status \in {"pending", "confirmed"}
          /\ (cn[c].pc = "done" /\ cn[c].result = 400)
                => (cn'[c] = cn[c] /\ cn[c].inc = NoStock)]_vars

\* a second CancelOrder on the order a first one cancelled has answered 400 and restored
\* nothing
C9_Witness ==
    \E c, d \in CancelIds :
        /\ d < c
        /\ cn[d].result = 200
        /\ cn[c].result = 400
        /\ cn[c].order = cn[d].order
        /\ orders[cn[c].order].status = "cancelled"
        /\ cn[c].inc = NoStock
        /\ cn[d].inc # NoStock

\* C10: a CancelOrder call that is accepted adds to the stock of each item's SKU exactly
\* the item's quantity, has done so for every item of the order before it persists the
\* status, and answers with the order cancelled and carrying the given reason.
C10_CancelRestoresThenPersists ==
    [][\A c \in CancelIds :
          /\ (cn[c].pc = "restore" /\ cn'[c] # cn[c])
                => LET item == orders[cn[c].order].items[cn[c].i]
                   IN /\ stock' = [stock EXCEPT ![item.sku] = @ + item.quantity]
                      /\ orders' = orders
          /\ (cn[c].pc # "done" /\ cn'[c].pc = "done" /\ cn'[c].result = 200)
                => LET o == cn[c].order
                   IN /\ \A s \in SKUs : cn[c].inc[s] = QtyOf(orders[o].items, s)
                      /\ stock' = stock
                      /\ orders'[o].status = "cancelled"
                      /\ orders'[o].cancelReason = cn[c].reason
                      /\ cn[c].reason \in CancelReasons]_vars

\* a paid (confirmed) order of MaxQty x SKU A has been cancelled by its owner: the units
\* are back
C10_Witness ==
    \E c \in CancelIds :
        /\ cn[c].result = 200
        /\ cn[c].inc["A"] = MaxQty
        /\ orders[cn[c].order].items = <<[product |-> "p1", sku |-> "A", quantity |-> MaxQty,
                                          price |-> 299000, weight |-> 500]>>
        /\ orders[cn[c].order].paymentStatus = "paid"
        /\ orders[cn[c].order].status = "cancelled"
        /\ orders[cn[c].order].cancelReason = "changed my mind"
        /\ stock["A"] = stock0["A"]

\* no Checkout or CancelOrder call is between two of its store operations
Quiescent ==
    /\ \A p \in CheckoutIds : co[p].pc \in {"idle", "done"}
    /\ \A c \in CancelIds : cn[c].pc \in {"idle", "done"}

\* quantity of SKU s in the orders of the store that are not cancelled
HeldQty(s) ==
    SumSeq([o \in 1..Len(orders) |->
              IF orders[o].status # "cancelled" THEN QtyOf(orders[o].items, s) ELSE 0])

\* C11: whenever no call is in flight, the stock of every SKU is its initial stock minus
\* the item quantities of the orders that are not cancelled: a cancelled order has had its
\* decrement given back, whatever request cancelled it, and every other order still holds
\* its decrement.
C11_CancelledStockRestored ==
    Quiescent => \A s \in SKUs : stock[s] = stock0[s] - HeldQty(s)

\* the line of the cart a Checkout call is validating cannot be ordered now
Unavailable(line) ==
    \/ ~isActive[line.product]
    \/ line.sku \notin SKUs
    \/ stock[line.sku] < line.quantity

\* C12: a Checkout call whose validation meets a line whose product is inactive, whose SKU
\* is missing or whose SKU has less stock than the line's quantity answers 400 at that
\* line, having created no Order and decremented nothing, and the step leaves orders, stock
\* and carts as they were; a line that can be ordered never fails the call.
C12_ValidationFailureNoSideEffects ==
    [][\A p \in CheckoutIds :
          (co[p].pc = "validate" /\ co'[p] # co[p])
          => IF Unavailable(co[p].items[co[p].i])
             THEN /\ co'[p].pc = "done"
                  /\ co'[p].result = 400
                  /\ co'[p].order = 0
                  /\ co'[p].dec = NoStock
                  /\ orders' = orders
                  /\ stock' = stock
                  /\ cart' = cart
             ELSE co'[p].pc \in {"validate", "save"}]_vars

\* u1's Checkout of MaxQty x A (in stock) and 1 x B (stock 0) has failed: no order, SKU A's
\* stock is what it was and the cart keeps both lines
C12_Witness ==
    \E p \in CheckoutIds :
        /\ co[p].result = 400
        /\ co[p].message = "Insufficient stock"
        /\ co[p].user = "u1"
        /\ cart["u1"] = <<Line("A", MaxQty), Line("B", 1)>>
        /\ stock0 = [s \in SKUs |-> IF s = "A" THEN MaxStock ELSE 0]
        /\ stock = stock0
        /\ orders = <<>>
        /\ \A q \in Products : isActive[q]

\* C13: a Checkout call that finds the user's cart missing or without lines answers the
\* empty-cart error at once, and a call that has answered it has created no Order and
\* decremented no stock; a cart with lines never gets that answer.
C13_EmptyCartFailsFast ==
    [][\A p \in CheckoutIds :
          /\ (co[p].pc = "idle" /\ co'[p].pc # "idle")
                => IF cart[co'[p].user] = <<>>
                   THEN /\ co'[p].pc = "done"
                        /\ co'[p].result = 400
                        /\ co'[p].message = "Cart is empty"
                        /\ co'[p].order = 0
                        /\ co'[p].dec = NoStock
                        /\ orders' = orders
                        /\ stock' = stock
                        /\ cart' = cart
                   ELSE co'[p].pc = "validate"
          /\ co[p].message = "Cart is empty"
                => (co'[p] = co[p] /\ co[p].order = 0 /\ co[p].dec = NoStock)]_vars

\* u1 has checked out with success and u1's next Checkout has answered the empty-cart
\* error: still one order, and the stock is what the first call left
C13_Witness ==
    /\ co[1].result = 201
    /\ co[1].user = "u1"
    /\ co[2].result = 400
    /\ co[2].message = "Cart is empty"
    /\ co[2].user = "u1"
    /\ cart["u1"] = <<>>
    /\ Len(orders) = 1
    /\ \A s \in SKUs : stock[s] = stock0[s] - QtyOf(orders[1].items, s)

\* C14: the step of a Checkout call that persists its Order appends exactly one Order, of
\* the calling user, with status pending and paymentStatus pending and one item per line
\* of the cart it loaded, with the line's product, SKU and quantity; a call persists no
\* second Order, and the step that answers success leaves the user's cart without lines.
C14_SuccessfulCheckout ==
    [][\A p \in CheckoutIds :
          /\ (co[p].pc = "save" /\ co'[p].pc = "stock")
                => /\ Len(orders') = Len(orders) + 1
                   /\ SubSeq(orders', 1, Len(orders)) = orders
                   /\ co'[p].order = Len(orders')
                   /\ LET order == orders'[Len(orders')]
                      IN /\ order.user = co[p].user
                         /\ order.status = "pending"
                         /\ order.paymentStatus = "pending"
                         /\ Len(order.items) = Len(co[p].items)
                         /\ \A i \in 1..Len(order.items) :
                               /\ order.items[i].product = co[p].items[i].product
                               /\ order.items[i].sku = co[p].items[i].sku
                               /\ order.items[i].quantity = co[p].items[i].quantity
          /\ co[p].order # 0 => co'[p].order = co[p].order
          /\ (co[p].pc # "save" /\ co'[p] # co[p]) => orders' = orders
          /\ (co[p].result # 201 /\ co'[p].result = 201)
                => /\ co[p].order \in 1..Len(orders)
                   /\ cart'[co[p].user] = <<>>]_vars

\* u1's Checkout has answered 201: one pending order of MaxQty x A and 1 x B, cart empty
C14_Witness ==
    \E p \in CheckoutIds :
        /\ co[p].result = 201
        /\ co[p].user = "u1"
        /\ Len(orders) = 1
        /\ orders[1].user = "u1"
        /\ orders[1].status = "pending"
        /\ orders[1].paymentStatus = "pending"
        /\ [i \in 1..Len(orders[1].items) |->
               <<orders[1].items[i].sku, orders[1].items[i].quantity>>]
           = <<(<<"A", MaxQty>>), (<<"B", 1>>)>>
        /\ cart["u1"] = <<>>

\* C15: the step of a request whose notification fails is a successful one: Checkout
\* answers 201 and its order, its decrements and the cleared cart stay; CancelOrder answers
\* 200 with the order cancelled and the stock it restored; an admin status or payment update
\* answers 200 with the value it was asked for persisted.
C15_NotificationFailureHarmless ==
    [][notifyErrors' # notifyErrors
       => /\ stock' = stock
          /\ \A p \in CheckoutIds :
                co'[p] # co[p]
                => /\ co'[p].result = 201
                   /\ co'[p].order = co[p].order
                   /\ co'[p].dec = co[p].dec
                   /\ cart'[co[p].user] = <<>>
                   /\ orders' = orders
          /\ \A c \in CancelIds :
                cn'[c] # cn[c]
                => /\ cn'[c].result = 200
                   /\ cn'[c].inc = cn[c].inc
                   /\ orders'[cn[c].order].status = "cancelled"
                   /\ orders'[cn[c].order].cancelReason = cn[c].reason
          /\ (co' = co /\ cn' = cn)
                => /\ resp' = 200
                   /\ \/ \E o \in 1..Len(orders), s \in OrderStatusEnum, t \in TrackingNumbers :
                            updateOrderStatus(o, s, t, FALSE) /\ orders'[o].status = s
                      \/ \E o \in 1..Len(orders), s \in PaymentStatusEnum :
                            updatePaymentStatus(o, s, FALSE) /\ orders'[o].paymentStatus = s]_vars

\* one notification has failed, that of the Checkout or that of the CancelOrder of its
\* order, with no admin request made: the calls answered 201 and 200, the order is cancelled
\* and its units are back
C15_Witness ==
    \E c \in CancelIds :
        /\ notifyErrors = 1
        /\ cn[c].result = 200
        /\ cn[c].inc # NoStock
        /\ co[1].result = 201
        /\ orders[cn[c].order].status = "cancelled"
        /\ orders[cn[c].order].paymentStatus = "pending"
        /\ resp = 0
        /\ cart[orders[cn[c].order].user] = <<>>
        /\ stock = stock0

\* the items and the pricing fields of an order
Snapshot(order) ==
    [items |-> order.items, subtotal |-> order.subtotal, shippingCost |-> order.shippingCost,
     taxAmount |-> order.taxAmount, discountAmount |-> order.discountAmount,
     totalAmount |-> order.totalAmount]

\* C16: no step changes the items or the pricing fields of an order of the store, be it a
\* SKU or product update, a status or payment request, a gateway notification or a cancel.
C16_OrderSnapshotImmutable ==
    [][\A o \in 1..Len(orders) :
          /\ o <= Len(orders')
          /\ Snapshot(orders'[o]) = Snapshot(orders[o])]_vars

\* an order priced at 299000 per unit of SKU A has been paid and cancelled, and SKU A now
\* costs 150000 and its product is inactive: the order still carries 299000
C16_Witness ==
    \E o \in 1..Len(orders) :
        /\ orders[o].items[1].sku = "A"
        /\ orders[o].items[1].price = 299000
        /\ price["A"] = 150000
        /\ ~isActive["p1"]
        /\ orders[o].paymentStatus = "paid"
        /\ orders[o].status = "cancelled"
        /\ orders[o].cancelReason # ""

\* C17: when a Checkout call validates a line, it fails exactly when the product is
\* inactive now or the SKU's stock now is below the quantity, and otherwise the item it
\* adds carries the SKU's price of now, whatever price the cart line stores, and the
\* subtotal grows by that price times the quantity.
C17_CheckoutTimeCatalog ==
    [][\A p \in CheckoutIds :
          (co[p].pc = "validate" /\ co'[p] # co[p])
          => LET line == co[p].items[co[p].i]
             IN IF Unavailable(line)
                THEN co'[p].result = 400
                ELSE /\ co'[p].result = 0
                     /\ Len(co'[p].orderItems) = Len(co[p].orderItems) + 1
                     /\ LET item == co'[p].orderItems[Len(co'[p].orderItems)]
                        IN /\ item.sku = line.sku
                           /\ item.quantity = line.quantity
                           /\ item.price = price[line.sku]
                     /\ co'[p].subtotal = co[p].subtotal + price[line.sku] * line.quantity]_vars

\* an order has been created for a cart line of SKU A stored at 299000, at the 150000 the
\* SKU cost when it was checked out
C17_Witness ==
    \E p \in CheckoutIds :
        /\ co[p].result = 201
        /\ co[p].user = "u1"
        /\ Line("A", MaxQty).price = 299000
        /\ orders[co[p].order].items[1].sku = "A"
        /\ orders[co[p].order].items[1].price = 150000
        /\ orders[co[p].order].items[2].price = 150000
        /\ orders[co[p].order].subtotal = 150000 * MaxQty + 150000

\* C18: every order of the store has at least one item.
C18_NonEmptyItems ==
    \A o \in 1..Len(orders) : Len(orders[o].items) >= 1

\* a Checkout on an empty cart has been refused and another has created the only order of
\* the store, with two items
C18_Witness ==
    /\ co[1].message = "Cart is empty"
    /\ co[2].result = 201
    /\ Len(orders) = 1
    /\ Len(orders[1].items) = 2

\* C19: a call of the shipping-cost function returns a whole number of currency units:
\* max(15000, weight * 0.01) for regular, max(25000, weight * 0.02) for express,
\* max(50000, weight * 0.03) for same_day, where weight is the sum of weight * quantity
\* over the items.
C19_ShippingCostFunction ==
    shipping.cost100 # -1
    => LET weight == TotalWeight(shipping.items)
           cost100 == shipping.cost100
       IN /\ cost100 % 100 = 0
          /\ shipping.shippingMethod = "regular"  => cost100 = Max(15000 * 100, weight)
          /\ shipping.shippingMethod = "express"  => cost100 = Max(25000 * 100, weight * 2)
          /\ shipping.shippingMethod = "same_day" => cost100 = Max(50000 * 100, weight * 3)

\* C20: whatever cart requests a user has made, and however they were interleaved, the
\* cart has at most one line per (product, SKU) pair.
C20_CartLineUniqueness ==
    \A u \in Users :
        \A i, j \in 1..Len(cart[u]) :
            (cart[u][i].product = cart[u][j].product /\ cart[u][i].sku = cart[u][j].sku)
            => i = j

C22_CancelPaymentReachesCancelled ==
    [][\A u \in Users, o \in OrderIds :
          (/\ o <= Len(orders)
           /\ orders[o].user = u
           /\ orders[o].paymentStatus \in {"pending", "paid"}
           /\ cancelPayment(u, o))
          => IF orders[o].paymentStatus = "pending"
             THEN /\ orders'[o].paymentStatus = "cancelled"
                  /\ orders'[o].status = "cancelled"
                  /\ resp' = 200
             ELSE /\ orders' = orders
                  /\ resp' = 400]_vars

\* C23: when a Checkout call clears the user's cart, every unit of every SKU in the cart
\* it clears is in the Order this call created, however addToCart and updateCartItem
\* requests of the user were interleaved with it: nothing added or raised after the call
\* loaded the cart is discarded without being ordered.
C23_ClearOnlyWhatWasOrdered ==
    [][\A p \in CheckoutIds :
          (co[p].pc = "clear" /\ co'[p].result = 201)
          => \A s \in SKUs :
                QtyOf(cart[co[p].user], s) <= QtyOf(orders[co[p].order].items, s)]_vars

\* units of SKU s that the CancelOrder calls have added back on behalf of order o
RestoredQty(o, s) ==
    SumSeq([c \in CancelIds |-> IF cn[c].order = o THEN cn[c].inc[s] ELSE 0])

\* C24: over any sequence of requests on an order (cancels, admin status updates, payment
\* requests), the stock added back to a SKU on behalf of the order never exceeds the
\* quantity of that SKU in the order, which is what its checkout decrements: stock is
\* restored at most once per order.
C24_RestoredAtMostOnce ==
    \A o \in 1..Len(orders) :
        \A s \in SKUs : RestoredQty(o, s) <= QtyOf(orders[o].items, s)

\* C25: of the Checkout calls of one user on one cart content, however interleaved, at
\* most one creates an Order and at most one decrements the stock of a SKU.
C25_OneOrderPerCart ==
    \A p, q \in CheckoutIds :
        (p # q /\ Started(p) /\ Started(q) /\ co[p].user = co[q].user)
        => /\ ~(co[p].order # 0 /\ co[q].order # 0)
           /\ \A s \in SKUs : ~(co[p].dec[s] > 0 /\ co[q].dec[s] > 0)

\* C26: the step of any request that changes an order's fulfillment status or payment
\* status (admin status update, admin payment update, user cancel, payment-gateway
\* notification, payment cancel) calls the NotificationService for that order and its new
\* status before the request returns.
C26_TransitionNotified ==
    [][\A o \in 1..Len(orders) :
          /\ orders'[o].status # orders[o].status
                => Call(o, "order", orders'[o].status) \in notice'.calls
          /\ orders'[o].paymentStatus # orders[o].paymentStatus
                => Call(o, "payment", orders'[o].paymentStatus) \in notice'.calls]_vars

C28_TotalStockIsSum ==
    \A p \in Products : totalStock[p] = TotalOf(stock, p)

\* C29: the save of an admin SKU update leaves the SKU's stock at what the request's own
\* edit makes of the stock of that moment: the units a checkout took or a cancellation gave
\* back between the request's load and its save are still in the stock afterwards.
C29_StockChangeNotLost ==
    [][(su.pc = "save" /\ su'.pc = "idle")
       => stock'[su.sku] = stock[su.sku] + (su.stock - su.skus[su.sku])]_vars

\* C30: a CancelOrder call of user U on an order of another user answers not found (404)
\* at once and changes neither the order nor any stock; a call that goes on to restore
\* stock and to change an order does so for an order that belongs to its caller.
C30_OwnershipIsolation ==
    [][\A c \in CancelIds :
          /\ \A u \in Users, o \in OrderIds, r \in CancelReasons :
                (/\ cn[c].pc = "idle"
                 /\ cn'[c].pc # "idle"
                 /\ o <= Len(orders)
                 /\ orders[o].user # u
                 /\ cancelOrderLoad(c, u, o, r))
                => (/\ cn'[c].pc = "done"
                    /\ cn'[c].result = 404
                    /\ cn'[c].inc = NoStock
                    /\ orders' = orders
                    /\ stock' = stock)
          /\ cn[c].pc \in {"restore", "save"}
                => orders[cn[c].order].user = cn[c].user
          /\ (cn[c].pc = "done" /\ cn[c].result = 404)
                => (cn'[c] = cn[c] /\ cn[c].inc = NoStock)]_vars

\* u2's CancelOrder of u1's checked-out order has answered 404: the order is still pending
\* and the units it holds are still out of the stock
C30_Witness ==
    \E c \in CancelIds :
        /\ cn[c].result = 404
        /\ cn[c].order \in 1..Len(orders)
        /\ orders[cn[c].order].user = "u1"
        /\ orders[cn[c].order].status = "pending"
        /\ orders[cn[c].order].cancelReason = ""
        /\ cn[c].inc = NoStock
        /\ co[1].result = 201
        /\ stock["A"] = stock0["A"] - MaxQty

====
